---------------------------- MODULE Spec2Model ----------------------------
(***************************************************************************)
(* Moment2 beam envelope engine: Config store, Moment2State, the element   *)
(* family of moment2.cpp and the Machine propagation driver.               *)
(*                                                                         *)
(* Numbers.  A C++ double is an integer or NaN, and the arithmetic of the  *)
(* code is integer arithmetic: sums and products are exact, a quotient is  *)
(* the integer quotient and a square root the integer square root.  NaN    *)
(* propagates through every operation and compares unequal to everything.  *)
(***************************************************************************)
EXTENDS Integers, Sequences, FiniteSets

(***************************************************************************)
(* Bounds of the model                                                     *)
(***************************************************************************)
\* largest path length a state is advanced to
MaxPos == 2

(***************************************************************************)
(* double                                                                  *)
(***************************************************************************)
\* std::numeric_limits<double>::quiet_NaN(): a value outside the integers used
NaN == -999999937

IsNaN(a) == a = NaN

\* a != b on doubles: NaN compares unequal to every value, itself included
Neq(a, b) == IsNaN(a) \/ IsNaN(b) \/ a # b

Add(a, b) == IF IsNaN(a) \/ IsNaN(b) THEN NaN ELSE a + b

Mul(a, b) == IF IsNaN(a) \/ IsNaN(b) THEN NaN ELSE a * b

\* a / b: the integer quotient
Div(a, b) == IF IsNaN(a) \/ IsNaN(b) THEN NaN ELSE a \div b

\* sqrt(a): the integer square root
sqrt(a) == IF IsNaN(a) THEN NaN ELSE CHOOSE r \in 0 .. a : r * r <= a /\ (r + 1) * (r + 1) > a

sqr(a) == Mul(a, a)

cube(a) == Mul(a, sqr(a))

\* 2*M_PI, in arc seconds
TwoPi == 1296000

\* C0 of constants.h, the speed of light in units of 1e8 m/s
C0 == 3

\* MtoMM of constants.h, metres to millimetres
MtoMM == 1000

(***************************************************************************)
(* Phase space, vectors and matrices (ublas, row major): M[i][j]           *)
(***************************************************************************)
maxsize == 7
PS_X == 0
PS_PX == 1
PS_Y == 2
PS_PY == 3
PS_S == 4
PS_PS == 5

Idx == 0 .. (maxsize - 1)

\* vector_t(maxsize, v)
ConstVector(v) == [i \in Idx |-> v]

\* identity_matrix<double>(maxsize)
identity_matrix == [i \in Idx |-> [j \in Idx |-> IF i = j THEN 1 ELSE 0]]

\* a matrix of maxsize x maxsize doubles that all hold v
ConstMatrix(v) == [i \in Idx |-> [j \in Idx |-> v]]

\* whether no entry of the matrix, or of the vector, is NaN
FiniteMatrix(A) == \A i \in Idx : \A j \in Idx : ~IsNaN(A[i][j])
FiniteVector(v) == \A i \in Idx : ~IsNaN(v[i])

\* the sum over k in Idx of a[k]*b[k], written out for maxsize = 7, where
\* no term is NaN
DotFinite(a, b) ==
    a[0] * b[0] + a[1] * b[1] + a[2] * b[2] + a[3] * b[3] + a[4] * b[4] + a[5] * b[5]
        + a[6] * b[6]

\* the same sum on doubles
Dot(a, b) ==
    Add(Add(Add(Add(Add(Add(Mul(a[0], b[0]), Mul(a[1], b[1])), Mul(a[2], b[2])),
        Mul(a[3], b[3])), Mul(a[4], b[4])), Mul(a[5], b[5])), Mul(a[6], b[6]))

\* trans(A)
trans(A) == [i \in Idx |-> [j \in Idx |-> A[j][i]]]

\* prod(A, B), matrix by matrix: row i of A by column j of B
prod(A, B) ==
    LET Bt == trans(B)
    IN IF FiniteMatrix(A) /\ FiniteMatrix(B)
           THEN [i \in Idx |-> [j \in Idx |-> DotFinite(A[i], Bt[j])]]
           ELSE [i \in Idx |-> [j \in Idx |-> Dot(A[i], Bt[j])]]

\* prod(A, v), matrix by vector
prodv(A, v) ==
    IF FiniteMatrix(A) /\ FiniteVector(v)
        THEN [i \in Idx |-> DotFinite(A[i], v)]
        ELSE [i \in Idx |-> Dot(A[i], v)]

\* std::copy(I.begin(), I.end(), v.begin()) into a vector
CopyIntoVector(I, v) == [i \in Idx |-> IF i < Len(I) THEN I[i + 1] ELSE v[i]]

\* a mutant of the copy: the tail of M the vector does not reach is cleared
CopyIntoMatrix_clear(I, M) ==
    [i \in Idx |-> [j \in Idx |->
        IF i * maxsize + j < Len(I) THEN I[i * maxsize + j + 1] ELSE 0]]

\* std::copy(I.begin(), I.end(), M.data().begin()): row-major storage
CopyIntoMatrix(I, M) ==
    [i \in Idx |-> [j \in Idx |->
        IF i * maxsize + j < Len(I) THEN I[i * maxsize + j + 1] ELSE M[i][j]]]

\* the matrices among which the inverse of in is looked for: in itself (an
\* involution, the identity among them) and 2I - in (a shear I+N with N.N = 0)
InverseCandidates(in) ==
    {in, [i \in Idx |-> [j \in Idx |-> Add(Mul(2, identity_matrix[i][j]), Mul(-1, in[i][j]))]]}

\* inverse(out, in) of moment2.cpp: [err, out]; lu_factorize fails on a
\* singular matrix and runtime_error is thrown
inverse(in) ==
    IF \E out \in InverseCandidates(in) : prod(in, out) = identity_matrix
        THEN [err |-> "none",
              out |-> CHOOSE out \in InverseCandidates(in) : prod(in, out) = identity_matrix]
        ELSE [err |-> "runtime_error", out |-> in]

(***************************************************************************)
(* Config                                                                  *)
(***************************************************************************)
Keys ==
    {"L", "IonEk", "IonFy", "Es", "moment0", "initial", "Frf", "IonEs", "cavtype", "K",
     "transfer"}

Kinds == {"double", "string", "vector"}

\* a boost::any held by the store; kind "none" is the absent key
NoAny == [kind |-> "none", d |-> 0, vec |-> <<>>]
AnyDouble(x) == [kind |-> "double", d |-> x, vec |-> <<>>]
\* a std::string; d tells one string from another
AnyString(x) == [kind |-> "string", d |-> x, vec |-> <<>>]
AnyVector(v) == [kind |-> "vector", d |-> 0, vec |-> v]

EmptyConfig == [k \in Keys |-> NoAny]

\* Config::has
has(conf, s) == conf[s].kind # "none"

\* Config::getAny(name): throws key_error for a name that is not in the map
getAny(conf, s) ==
    IF has(conf, s)
        THEN [err |-> "none", val |-> conf[s]]
        ELSE [err |-> "key_error", val |-> NoAny]

\* boost::any_cast<T>: throws bad_any_cast unless the any holds a T
any_cast(T, a) ==
    IF a.kind = T
        THEN [err |-> "none", val |-> a]
        ELSE [err |-> "bad_any_cast", val |-> NoAny]

\* Config::get<T>(name)
get(conf, name, T) ==
    LET a == getAny(conf, name)
    IN IF a.err # "none" THEN a ELSE any_cast(T, a.val)

\* a mutant of get with a default: only key_error is caught
get_default_rethrow(conf, s, T, def) ==
    LET r == get(conf, s, T)
    IN IF r.err = "key_error" THEN [err |-> "none", val |-> def] ELSE r

\* Config::get<T>(name, def): both exceptions are caught, def returned
get_default(conf, s, T, def) ==
    LET r == get(conf, s, T)
    IN IF r.err = "none" THEN r ELSE [err |-> "none", val |-> def]

\* Config::setAny
setAny(conf, s, val) == [conf EXCEPT ![s] = val]

(***************************************************************************)
(* Moment2State                                                            *)
(***************************************************************************)
\* no State object in the slot
NoState ==
    [kind |-> "none", next_elem |-> 0, pos |-> 0, Ekinetic |-> 0, sync_phase |-> 0,
     gamma |-> 0, beta |-> 0, moment0 |-> ConstVector(0), state |-> ConstMatrix(0)]

\* a State of another concrete class (another simulation type)
OtherState == [NoState EXCEPT !.kind = "OtherState"]

\* gamma = (Ekinetic+Erest)/Erest
Gamma(Ekinetic, Erest) == Div(Add(Ekinetic, Erest), Erest)

\* beta = sqrt(1+1.0/sqr(gamma))
Beta(gamma) == sqrt(Add(1, Div(1, sqr(gamma))))

\* StateBase::StateBase(const Config&)
StateBase(conf) == [NoState EXCEPT !.kind = "Moment2State", !.next_elem = 0]

\* Moment2State::Moment2State(const Config&): [err, state]; no state is
\* produced when the constructor throws
Moment2State(conf) ==
    LET pos == get_default(conf, "L", "double", AnyDouble(0)).val.d
        Ekinetic == get_default(conf, "IonEk", "double", AnyDouble(0)).val.d
        sync_phase == get_default(conf, "IonFy", "double", AnyDouble(0)).val.d
        m0 == get(conf, "moment0", "vector")
        ini == get(conf, "initial", "vector")
        Erest == get_default(conf, "Es", "double", AnyDouble(1)).val.d
        gamma == Gamma(Ekinetic, Erest)
    IN IF m0.err = "none" /\ Len(m0.val.vec) > maxsize
           THEN [err |-> "invalid_argument", state |-> NoState]
       ELSE IF m0.err = "bad_any_cast"
           THEN [err |-> "invalid_argument", state |-> NoState]
       ELSE IF ini.err = "none" /\ Len(ini.val.vec) > maxsize * maxsize
           THEN [err |-> "invalid_argument", state |-> NoState]
       ELSE IF ini.err = "bad_any_cast"
           THEN [err |-> "invalid_argument", state |-> NoState]
       ELSE [err |-> "none",
             state |-> [StateBase(conf) EXCEPT
                !.pos = pos,
                !.Ekinetic = Ekinetic,
                !.sync_phase = sync_phase,
                !.moment0 = IF m0.err = "none"
                                THEN CopyIntoVector(m0.val.vec, ConstVector(0))
                                ELSE ConstVector(0),
                !.state = IF ini.err = "none"
                              THEN CopyIntoMatrix(ini.val.vec, identity_matrix)
                              ELSE identity_matrix,
                !.gamma = gamma,
                !.beta = Beta(gamma)]]
\* Moment2State(const Moment2State& o, clone_tag): pos, Ekinetic, moment0 and
\* state are copied; sync_phase, gamma and beta have no initializer, so each
\* holds whatever the storage held (g1, g2, g3)
Moment2State_clone(o, g1, g2, g3) ==
    [kind |-> "Moment2State", next_elem |-> o.next_elem,
     pos |-> o.pos, Ekinetic |-> o.Ekinetic,
     sync_phase |-> g1, gamma |-> g2, beta |-> g3,
     moment0 |-> o.moment0, state |-> o.state]

\* StateBase::assign
StateBase_assign(self, other) == self

\* a mutant of assign: sync_phase is not copied
Moment2State_assign_nophase(self, other) ==
    IF other.kind # "Moment2State"
        THEN [err |-> "invalid_argument", state |-> self]
        ELSE [err |-> "none",
              state |-> StateBase_assign(
                  [self EXCEPT !.pos = other.pos, !.Ekinetic = other.Ekinetic,
                               !.gamma = other.gamma, !.beta = other.beta,
                               !.moment0 = other.moment0, !.state = other.state],
                  other)]

\* Moment2State::assign(const StateBase& other): [err, state]
Moment2State_assign(self, other) ==
    IF other.kind # "Moment2State"
        THEN [err |-> "invalid_argument", state |-> self]
        ELSE [err |-> "none",
              state |-> StateBase_assign(
                  [self EXCEPT !.pos = other.pos, !.Ekinetic = other.Ekinetic,
                               !.sync_phase = other.sync_phase,
                               !.gamma = other.gamma, !.beta = other.beta,
                               !.moment0 = other.moment0, !.state = other.state],
                  other)]

(***************************************************************************)
(* Elements                                                                *)
(***************************************************************************)
\* the element classes whose advance is Moment2ElementBase::advance
DefaultKinds == {"marker", "drift", "quadrupole", "solenoid", "generic"}

ElementKinds == {"source", "rfcavity"} \cup DefaultKinds

\* the calls made on an element so far, kept beside its fields: whether
\* the last call on it was an advance (h_adv) and not its constructor or
\* assign, and the kinetic energy the state had when that advance was
\* entered (h_Ein)
NoCalls == [h_adv |-> FALSE, h_Ein |-> 0]

\* Moment2ElementBase::Moment2ElementBase(const Config&) on top of
\* ElementVoid(c): [err, elem].  transfer is allocated and not filled: every
\* entry holds what the storage held (garbage)
Moment2ElementBase(kind, index, conf, garbage) ==
    LET length == get_default(conf, "L", "double", AnyDouble(0)).val.d
        Frf == get(conf, "Frf", "double")
        IonEs == get(conf, "IonEs", "double")
        FSampLength == Mul(Div(C0, Frf.val.d), MtoMM)
        inv == inverse(identity_matrix)
    IN IF Frf.err # "none" THEN [err |-> Frf.err, elem |-> <<>>]
       ELSE IF IonEs.err # "none" THEN [err |-> IonEs.err, elem |-> <<>>]
       ELSE IF inv.err # "none" THEN [err |-> inv.err, elem |-> <<>>]
       ELSE [err |-> "none",
             elem |-> [kind |-> kind, index |-> index,
                       length |-> length,
                       FSampLength |-> FSampLength,
                       phase_factor |-> Div(Mul(length, TwoPi), FSampLength),
                       Erest |-> IonEs.val.d,
                       transfer |-> ConstMatrix(garbage),
                       transfer_raw |-> identity_matrix,
                       misalign |-> identity_matrix,
                       misalign_inv |-> inv.out,
                       last_Kenergy_in |-> NaN,
                       last_Kenergy_out |-> NaN,
                       istate |-> NoState,
                       calls |-> NoCalls]]

\* ElementSource(c): base_t(c), istate(c)
ElementSource(index, conf, garbage) ==
    LET b == Moment2ElementBase("source", index, conf, garbage)
        i == Moment2State(conf)
    IN IF b.err # "none" THEN b
       ELSE IF i.err # "none" THEN [err |-> i.err, elem |-> <<>>]
       ELSE [err |-> "none", elem |-> [b.elem EXCEPT !.istate = i.state]]

\* ElementMark(c): length = phase_factor = 0.0
ElementMark(index, conf, garbage) ==
    LET b == Moment2ElementBase("marker", index, conf, garbage)
    IN IF b.err # "none" THEN b
       ELSE [err |-> "none", elem |-> [b.elem EXCEPT !.length = 0, !.phase_factor = 0]]

\* ElementDrift(c)
ElementDrift(index, conf, garbage) ==
    LET b == Moment2ElementBase("drift", index, conf, garbage)
    IN IF b.err # "none" THEN b
       ELSE LET L == Mul(b.elem.length, MtoMM)
            IN [err |-> "none",
                elem |-> [b.elem EXCEPT !.transfer_raw[PS_X][PS_PX] = L,
                                        !.transfer_raw[PS_Y][PS_PY] = L]]

\* ElementRFCavity(c)
ElementRFCavity(index, conf, garbage) ==
    LET b == Moment2ElementBase("rfcavity", index, conf, garbage)
        cav_type == get(conf, "cavtype", "string")
        Lm == get(conf, "L", "double")
    IN IF b.err # "none" THEN b
       ELSE IF cav_type.err # "none" THEN [err |-> cav_type.err, elem |-> <<>>]
       ELSE IF Lm.err # "none" THEN [err |-> Lm.err, elem |-> <<>>]
       ELSE LET L == Mul(Lm.val.d, MtoMM)
            IN [err |-> "none",
                elem |-> [b.elem EXCEPT !.transfer_raw[PS_X][PS_PX] = L,
                                        !.transfer_raw[PS_Y][PS_PY] = L]]

\* a > b on doubles: false when either is NaN
Gt(a, b) == ~IsNaN(a) /\ ~IsNaN(b) /\ a > b

\* ::cos and ::sin of a whole number, in integer arithmetic: cos(0) = 1,
\* sin(0) = 0, and both are below 1 in size everywhere else
cos(x) == IF IsNaN(x) THEN NaN ELSE IF x = 0 THEN 1 ELSE 0
sin(x) == IF IsNaN(x) THEN NaN ELSE 0

\* ::cosh and ::sinh, by the first two terms of their series
cosh(x) == Add(1, Div(sqr(x), 2))
sinh(x) == Add(x, Div(cube(x), 6))

\* a mutant of Get2by2Matrix: the entries are not guarded against
\* sqrtK = 0, and at strength 0 the quotient is 0/0
Get2by2Matrix_unguarded(L, K, ind, M) ==
    LET foc == Gt(K, 0)
        sqrtK == IF foc THEN sqrt(K) ELSE sqrt(Mul(-1, K))
        psi == Mul(sqrtK, L)
        cs == IF foc THEN cos(psi) ELSE cosh(psi)
        sn == IF foc THEN sin(psi) ELSE sinh(psi)
    IN [M EXCEPT ![ind][ind] = cs,
                 ![ind + 1][ind + 1] = cs,
                 ![ind][ind + 1] = IF Neq(sqrtK, 0) THEN Div(sn, sqrtK) ELSE NaN,
                 ![ind + 1][ind] = IF foc THEN Mul(Mul(-1, sqrtK), sn) ELSE Mul(sqrtK, sn)]

\* Get2by2Matrix(L, K, ind, M): the matrix M with the 2x2 block of one
\* plane at ind filled in
Get2by2Matrix(L, K, ind, M) ==
    LET foc == Gt(K, 0)
        sqrtK == IF foc THEN sqrt(K) ELSE sqrt(Mul(-1, K))
        psi == Mul(sqrtK, L)
        cs == IF foc THEN cos(psi) ELSE cosh(psi)
        sn == IF foc THEN sin(psi) ELSE sinh(psi)
    IN [M EXCEPT ![ind][ind] = cs,
                 ![ind + 1][ind + 1] = cs,
                 ![ind][ind + 1] = IF Neq(sqrtK, 0) THEN Div(sn, sqrtK) ELSE L,
                 ![ind + 1][ind] =
                     IF Neq(sqrtK, 0)
                         THEN (IF foc THEN Mul(Mul(-1, sqrtK), sn) ELSE Mul(sqrtK, sn))
                         ELSE 0]

\* ElementQuad(c)
ElementQuad(index, conf, garbage) ==
    LET b == Moment2ElementBase("quadrupole", index, conf, garbage)
        Lm == get(conf, "L", "double")
    IN IF b.err # "none" THEN b
       ELSE IF Lm.err # "none" THEN [err |-> Lm.err, elem |-> <<>>]
       ELSE LET L == Mul(Lm.val.d, MtoMM)
                K == Div(get_default(conf, "K", "double", AnyDouble(0)).val.d, sqr(MtoMM))
                horizontal == Get2by2Matrix(L, K, PS_X, b.elem.transfer_raw)
            IN [err |-> "none",
                elem |-> [b.elem EXCEPT !.transfer_raw =
                            Get2by2Matrix(L, Mul(-1, K), PS_Y, horizontal)]]

\* a mutant of the solenoid at K = 0: the quotient S*C/K is taken without
\* the guard, and is 0/0
ElementSolenoid_unguarded(index, conf, garbage) ==
    LET b == Moment2ElementBase("solenoid", index, conf, garbage)
    IN IF b.err # "none" THEN b
       ELSE [err |-> "none",
             elem |-> [b.elem EXCEPT !.transfer_raw[PS_X][PS_PX] = NaN,
                                     !.transfer_raw[PS_Y][PS_PY] = NaN]]

\* ElementSolenoid(c)
ElementSolenoid(index, conf, garbage) ==
    LET b == Moment2ElementBase("solenoid", index, conf, garbage)
        Lm == get(conf, "L", "double")
    IN IF b.err # "none" THEN b
       ELSE IF Lm.err # "none" THEN [err |-> Lm.err, elem |-> <<>>]
       ELSE LET L == Mul(Lm.val.d, MtoMM)
                K == Div(get_default(conf, "K", "double", AnyDouble(0)).val.d, MtoMM)
                C == cos(Mul(K, L))
                S == sin(Mul(K, L))
                SC == Mul(S, C)
                nz == Neq(K, 0)
            IN [err |-> "none",
                elem |-> [b.elem EXCEPT
                    !.transfer_raw[PS_X][PS_X] = sqr(C),
                    !.transfer_raw[PS_PX][PS_PX] = sqr(C),
                    !.transfer_raw[PS_Y][PS_Y] = sqr(C),
                    !.transfer_raw[PS_PY][PS_PY] = sqr(C),
                    !.transfer_raw[PS_X][PS_PX] = IF nz THEN Div(SC, K) ELSE L,
                    !.transfer_raw[PS_X][PS_Y] = SC,
                    !.transfer_raw[PS_X][PS_PY] = IF nz THEN Div(sqr(S), K) ELSE 0,
                    !.transfer_raw[PS_PX][PS_X] = Mul(Mul(Mul(-1, K), S), C),
                    !.transfer_raw[PS_PX][PS_Y] = Mul(Mul(-1, K), sqr(S)),
                    !.transfer_raw[PS_PX][PS_PY] = SC,
                    !.transfer_raw[PS_Y][PS_X] = Mul(-1, SC),
                    !.transfer_raw[PS_Y][PS_PX] = IF nz THEN Div(Mul(-1, sqr(S)), K) ELSE 0,
                    !.transfer_raw[PS_Y][PS_PY] = IF nz THEN Div(SC, K) ELSE L,
                    !.transfer_raw[PS_PY][PS_X] = Mul(K, sqr(S)),
                    !.transfer_raw[PS_PY][PS_PX] = Mul(-1, SC),
                    !.transfer_raw[PS_PY][PS_Y] = Mul(Mul(Mul(-1, K), S), C)]]

\* a mutant of the generic element: the list replaces the whole matrix,
\* and what it does not reach is zero
ElementGeneric_replace(index, conf, garbage) ==
    LET b == Moment2ElementBase("generic", index, conf, garbage)
        I == get(conf, "transfer", "vector")
    IN IF b.err # "none" THEN b
       ELSE IF I.err # "none" THEN [err |-> I.err, elem |-> <<>>]
       ELSE [err |-> "none",
             elem |-> [b.elem EXCEPT !.transfer_raw =
                         CopyIntoMatrix(I.val.vec, ConstMatrix(0))]]

\* ElementGeneric(c)
ElementGeneric(index, conf, garbage) ==
    LET b == Moment2ElementBase("generic", index, conf, garbage)
        I == get(conf, "transfer", "vector")
    IN IF b.err # "none" THEN b
       ELSE IF I.err # "none" THEN [err |-> I.err, elem |-> <<>>]
       ELSE IF Len(I.val.vec) > maxsize * maxsize
           THEN [err |-> "invalid_argument", elem |-> <<>>]
       ELSE [err |-> "none",
             elem |-> [b.elem EXCEPT !.transfer_raw =
                         CopyIntoMatrix(I.val.vec, b.elem.transfer_raw)]]

\* the builder registered for an element type name (registerMoment2)
BuildElement(kind, index, conf, garbage) ==
    CASE kind = "source" -> ElementSource(index, conf, garbage)
      [] kind = "marker" -> ElementMark(index, conf, garbage)
      [] kind = "drift" -> ElementDrift(index, conf, garbage)
      [] kind = "rfcavity" -> ElementRFCavity(index, conf, garbage)
      [] kind = "quadrupole" -> ElementQuad(index, conf, garbage)
      [] kind = "solenoid" -> ElementSolenoid(index, conf, garbage)
      [] kind = "generic" -> ElementGeneric(index, conf, garbage)
\* transfer_raw(PS_S, PS_PS) =
\*   -2e0*M_PI/(FSampLength*Erest*cube(ST.beta*ST.gamma))*length
EnergyTerm(E, ST) ==
    Mul(Div(Mul(-1, TwoPi),
            Mul(Mul(E.FSampLength, E.Erest), cube(Mul(ST.beta, ST.gamma)))),
        E.length)

\* a mutant of the tail: the second moments are multiplied by transfer on
\* both sides, the transpose forgotten
Transport_notrans(E, ST) ==
    [ST EXCEPT !.pos = Add(ST.pos, E.length),
               !.Ekinetic = E.last_Kenergy_out,
               !.sync_phase = Add(ST.sync_phase, Div(E.phase_factor, ST.beta)),
               !.moment0 = prodv(E.transfer, ST.moment0),
               !.state = prod(prod(E.transfer, ST.state), E.transfer)]

\* a mutant of the tail: the phase is not advanced
Transport_nophase(E, ST) ==
    [ST EXCEPT !.pos = Add(ST.pos, E.length),
               !.Ekinetic = E.last_Kenergy_out,
               !.moment0 = prodv(E.transfer, ST.moment0),
               !.state = prod(prod(E.transfer, ST.state), trans(E.transfer))]

\* the tail of both advance methods: position, energy, phase, then the
\* first and second moments through transfer
Transport(E, ST) ==
    [ST EXCEPT !.pos = Add(ST.pos, E.length),
               !.Ekinetic = E.last_Kenergy_out,
               !.sync_phase = Add(ST.sync_phase, Div(E.phase_factor, ST.beta)),
               !.moment0 = prodv(E.transfer, ST.moment0),
               !.state = prod(prod(E.transfer, ST.state), trans(E.transfer))]

\* a mutant of the default advance: on a miss the new transfer_raw is
\* stored and the cache keys set, but transfer is not rebuilt from it
Moment2ElementBase_advance_stale(E, ST) ==
    LET miss == Neq(ST.Ekinetic, E.last_Kenergy_in)
        E1 == IF miss
                  THEN [E EXCEPT !.transfer_raw[PS_S][PS_PS] = EnergyTerm(E, ST),
                                 !.last_Kenergy_in = ST.Ekinetic,
                                 !.last_Kenergy_out = ST.Ekinetic]
                  ELSE E
    IN [E |-> E1, ST |-> Transport(E1, ST), hit |-> ~miss]

\* a mutant of the default advance: the cache key is never stored, and
\* every call recomputes
Moment2ElementBase_advance_always(E, ST) ==
    LET raw == [E.transfer_raw EXCEPT ![PS_S][PS_PS] = EnergyTerm(E, ST)]
        E1 == [E EXCEPT !.transfer_raw = raw,
                        !.transfer = prod(prod(E.misalign, raw), E.misalign_inv),
                        !.last_Kenergy_in = NaN,
                        !.last_Kenergy_out = ST.Ekinetic]
    IN [E |-> E1, ST |-> Transport(E1, ST), hit |-> FALSE]

\* Moment2ElementBase::advance(StateBase&): [E, ST, hit]; hit says that
\* the energy-dependent terms were not recomputed
Moment2ElementBase_advance(E, ST) ==
    LET miss == Neq(ST.Ekinetic, E.last_Kenergy_in)
        raw == [E.transfer_raw EXCEPT ![PS_S][PS_PS] = EnergyTerm(E, ST)]
        E1 == IF miss
                  THEN [E EXCEPT !.transfer_raw = raw,
                                 !.transfer = prod(prod(E.misalign, raw), E.misalign_inv),
                                 !.last_Kenergy_in = ST.Ekinetic,
                                 !.last_Kenergy_out = ST.Ekinetic]
                  ELSE E
    IN [E |-> E1, ST |-> Transport(E1, ST), hit |-> ~miss]

\* a mutant of the cavity: advance is not overridden, and the element is
\* passive
ElementRFCavity_advance_passive(E, ST) == Moment2ElementBase_advance(E, ST)

\* ElementRFCavity::advance(StateBase&)
ElementRFCavity_advance(E, ST) ==
    LET miss == Neq(ST.Ekinetic, E.last_Kenergy_in)
        raw == [E.transfer_raw EXCEPT ![PS_S][PS_PS] = EnergyTerm(E, ST)]
        E1 == IF miss
                  THEN [E EXCEPT !.transfer_raw = raw,
                                 !.transfer = raw,
                                 !.last_Kenergy_in = ST.Ekinetic,
                                 !.last_Kenergy_out = Add(ST.Ekinetic, 1)]
                  ELSE E
    IN [E |-> E1, ST |-> Transport(E1, ST), hit |-> ~miss]

\* a mutant of the source: advance is not overridden, and the default
\* algorithm runs
ElementSource_advance_default(E, ST) == Moment2ElementBase_advance(E, ST)

\* ElementSource::advance(StateBase&): ST.assign(istate)
ElementSource_advance(E, ST) ==
    [E |-> E, ST |-> Moment2State_assign(ST, E.istate).state, hit |-> FALSE]

\* the virtual call E->advance(S)
advance(E, ST) ==
    CASE E.kind = "source" -> ElementSource_advance(E, ST)
      [] E.kind = "rfcavity" -> ElementRFCavity_advance(E, ST)
      [] OTHER -> Moment2ElementBase_advance(E, ST)

\* E->advance(S), with the call written into the element's call history
Call(E, ST) ==
    LET r == advance(E, ST)
    IN [E |-> [r.E EXCEPT !.calls = [h_adv |-> TRUE, h_Ein |-> ST.Ekinetic]],
        ST |-> r.ST, hit |-> r.hit]

\* ElementVoid::assign
ElementVoid_assign(E, O) == E

\* a mutant of assign: the cache keys are not spoiled
Moment2ElementBase_assign_keepkeys(E, O) ==
    [ElementVoid_assign(
        [E EXCEPT !.length = O.length,
                  !.FSampLength = O.FSampLength,
                  !.phase_factor = O.phase_factor,
                  !.Erest = O.Erest,
                  !.transfer = O.transfer,
                  !.transfer_raw = O.transfer_raw,
                  !.misalign = O.misalign], O)
     EXCEPT !.calls = NoCalls]

\* Moment2ElementBase::assign(const ElementVoid *other)
Moment2ElementBase_assign(E, O) ==
    [ElementVoid_assign(
        [E EXCEPT !.length = O.length,
                  !.FSampLength = O.FSampLength,
                  !.phase_factor = O.phase_factor,
                  !.Erest = O.Erest,
                  !.transfer = O.transfer,
                  !.transfer_raw = O.transfer_raw,
                  !.misalign = O.misalign], O)
     EXCEPT !.last_Kenergy_in = NaN, !.last_Kenergy_out = NaN,
            !.calls = NoCalls]
(***************************************************************************)
(* Machine                                                                 *)
(***************************************************************************)
\* the configuration of one lattice element
ElementConf(L) ==
    [EmptyConfig EXCEPT !["L"] = AnyDouble(L), !["Frf"] = AnyDouble(1),
                        !["IonEs"] = AnyDouble(1), !["cavtype"] = AnyString(1)]

\* the configuration of the source: the bunch it starts
SourceConf ==
    [ElementConf(0) EXCEPT !["IonFy"] = AnyDouble(3),
                           !["moment0"] = AnyVector(<<1, 0, 0, 0, 0, 1, 1>>)]

\* the lattice the Machine is built from: type name and configuration of
\* each element, in order
Lattice ==
    << [kind |-> "source", conf |-> SourceConf],
       [kind |-> "rfcavity", conf |-> ElementConf(1)],
       [kind |-> "drift", conf |-> ElementConf(1)] >>

ElemIdx == 0 .. (Len(Lattice) - 1)

\* what unfilled storage may hold
Garbage == {5, NaN}

\* Machine::Machine(const Config&): p_elements, each built by the builder
\* of its type and given the next index
Machine(garbage) ==
    [i \in ElemIdx |-> BuildElement(Lattice[i + 1].kind, i, Lattice[i + 1].conf, garbage).elem]

\* the bound of the model: E is advanced on ST only to a position within it
InBounds(E, ST) ==
    \/ E.kind = "source"
    \/ ST.pos + E.length <= MaxPos

(***************************************************************************)
(* The program: a Config under construction, the State objects a caller    *)
(* holds, the elements of the Machine, and the call in progress            *)
(***************************************************************************)
VARIABLES c, ret, st, elem, call

vars == <<c, ret, st, elem, call>>

\* the fields of a Moment2State that a copy has to carry
SameFields(a, b) ==
    /\ a.pos = b.pos
    /\ a.Ekinetic = b.Ekinetic
    /\ a.sync_phase = b.sync_phase
    /\ a.gamma = b.gamma
    /\ a.beta = b.beta
    /\ a.moment0 = b.moment0
    /\ a.state = b.state

\* the call in progress, or the last one made: its name (op), the
\* exception it ended with (err), the state slot s and the other slot o it
\* was given, and the state in slot s as it was when the call was made
\* (before).  For Machine::propogate, whose loop runs one element at a
\* time: whether it is still running (active), its arguments start and
\* max, the loop's element index i and count n, the index e of the element
\* advanced last, whether that advance took the cache-hit path (hit),
\* whether it was the first call on that element since its constructor or
\* assign (first), whether the call before it on that element was an
\* advance entered with the same kinetic energy (same), the energy it was
\* entered with (Ein), and whether it left transfer, transfer_raw and both
\* cache keys of the element as they were (kept)
NoCall ==
    [op |-> "none", err |-> "none", s |-> 0, o |-> 0, before |-> NoState,
     active |-> FALSE, start |-> 0, max |-> 0, i |-> 0, n |-> 0, e |-> 0,
     hit |-> FALSE, first |-> FALSE, same |-> FALSE, Ein |-> 0, kept |-> FALSE]

\* the result of the last Config lookup: what was asked (key, T, def, and
\* whether def was given) and what came back (err, val)
NoRet ==
    [key |-> "", T |-> "", hasdef |-> FALSE, def |-> NoAny, err |-> "none", val |-> NoAny]

\* the configurations a caller allocates the states it propagates from
StateConfs ==
    {[EmptyConfig EXCEPT !["IonEk"] = ek] : ek \in {NoAny, AnyDouble(1), AnyDouble(NaN)}}

\* the configurations of the states a caller copies and clones
CopyConfs ==
    {[EmptyConfig EXCEPT !["IonEk"] = AnyDouble(ek), !["IonFy"] = AnyDouble(fy),
                         !["L"] = AnyDouble(fy), !["moment0"] = m0, !["initial"] = m0] :
        ek \in {0, 1}, fy \in {0, 2}, m0 \in {NoAny, AnyVector(<<3, 4>>)}}

\* the configurations an element is built anew from before Element.assign
\* takes the new element's fields
ReConfs == {ElementConf(2)}

\* the elements Element.assign is called on
AssignIdx == {e \in ElemIdx : Lattice[e + 1].kind \in DefaultKinds}

\* the arguments Machine::propogate is called with
StartArgs == 0 .. Len(Lattice)
MaxArgs == {0, 1, 2, Len(Lattice) + 1}

\* a vector of k entries 2, 3, ..., k+1
VectorOf(k) == [i \in 1 .. k |-> i + 1]

\* the keys the caller sets
SetKeys == {"IonEk", "moment0", "initial"}

\* the values a caller sets under a key of the Config it builds a state
\* from: a double and a string for the energy; for a vector key a string,
\* and vectors shorter than the state's storage, as long, and one longer
ConfigValues(key) ==
    CASE key = "IonEk" -> {AnyDouble(1), AnyString(1)}
      [] key = "moment0" ->
            {AnyString(1), AnyVector(VectorOf(1)), AnyVector(VectorOf(maxsize)),
             AnyVector(VectorOf(maxsize + 1))}
      [] key = "initial" ->
            {AnyString(1), AnyVector(VectorOf(maxsize + 1)),
             AnyVector(VectorOf(maxsize * maxsize)),
             AnyVector(VectorOf(maxsize * maxsize + 1))}

\* the default handed to get<T>(key, def), one of each kind
DefaultOf(T) ==
    CASE T = "double" -> AnyDouble(7)
      [] T = "string" -> AnyString(7)
      [] T = "vector" -> AnyVector(<<7>>)

\* a caller that has built a Machine from the lattice
Init ==
    /\ c = EmptyConfig
    /\ ret = NoRet
    /\ st = [s \in {1, 2} |-> NoState]
    /\ \E g \in Garbage : elem = Machine(g)
    /\ call = NoCall

\* a caller that has built no Machine
InitCaller ==
    /\ c = EmptyConfig
    /\ ret = NoRet
    /\ st = [s \in {1, 2} |-> NoState]
    /\ elem = << >>
    /\ call = NoCall

\* Config::set<T>(key, value)
ConfigSet(key, val) ==
    /\ c' = setAny(c, key, val)
    /\ ret' = NoRet
    /\ call' = NoCall
    /\ UNCHANGED <<st, elem>>

\* Config::get<T>(key)
ConfigGet(key, T) ==
    /\ LET r == get(c, key, T)
       IN ret' = [key |-> key, T |-> T, hasdef |-> FALSE, def |-> NoAny,
                  err |-> r.err, val |-> r.val]
    /\ UNCHANGED <<c, st, elem, call>>

\* Config::get<T>(key, def)
ConfigGetDefault(key, T, def) ==
    /\ LET r == get_default(c, key, T, def)
       IN ret' = [key |-> key, T |-> T, hasdef |-> TRUE, def |-> def,
                  err |-> r.err, val |-> r.val]
    /\ UNCHANGED <<c, st, elem, call>>

\* new Moment2State(c) from the Config the caller has built, into slot s
NewState(s) ==
    /\ st[s].kind = "none"
    /\ LET r == Moment2State(c)
       IN /\ st' = IF r.err = "none" THEN [st EXCEPT ![s] = r.state] ELSE st
          /\ call' = [NoCall EXCEPT !.op = "Moment2State", !.err = r.err, !.s = s]
    /\ UNCHANGED <<c, ret, elem>>

\* Machine::allocState(Config&): the state builder of the simulation type
allocState(s, conf) ==
    /\ ~call.active
    /\ st[s].kind = "none"
    /\ LET r == Moment2State(conf)
       IN st' = IF r.err = "none" THEN [st EXCEPT ![s] = r.state] ELSE st
    /\ call' = NoCall
    /\ UNCHANGED <<c, ret, elem>>

\* a State of another simulation type comes to the caller
allocOtherState(s) ==
    /\ ~call.active
    /\ st[s].kind = "none"
    /\ st' = [st EXCEPT ![s] = OtherState]
    /\ call' = NoCall
    /\ UNCHANGED <<c, ret, elem>>

\* the caller deletes a State
deleteState(s) ==
    /\ ~call.active
    /\ st[s].kind # "none"
    /\ st' = [st EXCEPT ![s] = NoState]
    /\ call' = NoCall
    /\ UNCHANGED <<c, ret, elem>>

\* the clone of the state in slot o is put in the empty slot s
clone(s, o) ==
    /\ ~call.active
    /\ st[s].kind = "none"
    /\ st[o].kind = "Moment2State"
    /\ \E g1 \in Garbage, g2 \in Garbage, g3 \in Garbage :
          st' = [st EXCEPT ![s] = Moment2State_clone(st[o], g1, g2, g3)]
    /\ call' = [NoCall EXCEPT !.op = "clone", !.s = s, !.o = o]
    /\ UNCHANGED <<c, ret, elem>>

\* State.assign(other): the state in slot s takes the state in slot o
assign(s, o) ==
    /\ ~call.active
    /\ st[s].kind = "Moment2State"
    /\ st[o].kind # "none"
    /\ LET r == Moment2State_assign(st[s], st[o])
       IN /\ st' = [st EXCEPT ![s] = r.state]
          /\ call' = [NoCall EXCEPT !.op = "assign", !.err = r.err, !.s = s, !.o = o,
                                    !.before = st[s]]
    /\ UNCHANGED <<c, ret, elem>>

\* Element.assign(other) on element e, other being an element of the same
\* class built from conf
ElementAssign(e, conf, garbage) ==
    /\ ~call.active
    /\ LET O == BuildElement(elem[e].kind, e, conf, garbage)
       IN /\ O.err = "none"
          /\ elem' = [elem EXCEPT ![e] = Moment2ElementBase_assign(elem[e], O.elem)]
    /\ call' = NoCall
    /\ UNCHANGED <<c, ret, st>>

\* Machine::propogate(S, start, max) is entered
propogate(s, start, max) ==
    /\ ~call.active
    /\ st[s].kind = "Moment2State"
    /\ call' = [NoCall EXCEPT !.op = "propogate", !.s = s,
                              !.active = TRUE, !.start = start, !.max = max,
                              !.i = start, !.n = 0]
    /\ UNCHANGED <<c, ret, st, elem>>

\* a mutant of the loop: the driver does not set next_elem
propogate_next_own(ST, i) == ST

\* what the loop does to the state before it advances element i on it
propogate_next(ST, i) == [ST EXCEPT !.next_elem = i + 1]

\* a mutant of the loop condition: max is not looked at
propogate_more_nomax(i, n, max) == i < Len(Lattice)

\* the loop condition of Machine::propogate
propogate_more(i, n, max) == n < max /\ i < Len(Lattice)

\* one turn of the loop of Machine::propogate: element i is advanced on
\* the state, and the loop goes on from the state's next_elem
propogate_step ==
    /\ call.active
    /\ propogate_more(call.i, call.n, call.max)
    /\ InBounds(elem[call.i], st[call.s])
    /\ LET E == elem[call.i]
           ST == st[call.s]
           r == Call(E, propogate_next(ST, call.i))
       IN /\ elem' = [elem EXCEPT ![call.i] = r.E]
          /\ st' = [st EXCEPT ![call.s] = r.ST]
          /\ call' = [call EXCEPT
                !.i = r.ST.next_elem,
                !.n = call.n + 1,
                !.e = call.i,
                !.hit = r.hit,
                !.first = ~E.calls.h_adv,
                !.same = E.calls.h_adv /\ E.calls.h_Ein = ST.Ekinetic,
                !.Ein = ST.Ekinetic,
                !.kept = /\ r.E.transfer = E.transfer
                         /\ r.E.transfer_raw = E.transfer_raw
                         /\ r.E.last_Kenergy_in = E.last_Kenergy_in
                         /\ r.E.last_Kenergy_out = E.last_Kenergy_out]
    /\ UNCHANGED <<c, ret>>

\* Machine::propogate returns
propogate_return ==
    /\ call.active
    /\ ~propogate_more(call.i, call.n, call.max)
    /\ call' = NoCall
    /\ UNCHANGED <<c, ret, st, elem>>

\* a Machine and one State propagated through it
Next ==
    \/ \E conf \in StateConfs : allocState(1, conf)
    \/ \E e \in AssignIdx, conf \in ReConfs, g \in Garbage : ElementAssign(e, conf, g)
    \/ \E start \in StartArgs, max \in MaxArgs : propogate(1, start, max)
    \/ propogate_step
    \/ propogate_return

Spec == Init /\ [][Next]_vars

\* the State objects of a caller: allocated, cloned, assigned, deleted
NextState ==
    \/ \E s \in {1, 2}, conf \in CopyConfs : allocState(s, conf)
    \/ \E s \in {1, 2} : allocOtherState(s)
    \/ \E s \in {1, 2} : deleteState(s)
    \/ \E s \in {1, 2}, o \in {1, 2} : clone(s, o)
    \/ \E s \in {1, 2}, o \in {1, 2} : assign(s, o)

SpecState == InitCaller /\ [][NextState]_vars

\* a Config built by its caller, looked up, and a State constructed from it
NextConfig ==
    \/ \E key \in SetKeys : \E val \in ConfigValues(key) : ConfigSet(key, val)
    \/ \E key \in SetKeys, T \in Kinds : ConfigGet(key, T)
    \/ \E key \in SetKeys, T \in Kinds : ConfigGetDefault(key, T, DefaultOf(T))
    \/ NewState(1)
    \/ deleteState(1)

SpecConfig == InitCaller /\ [][NextConfig]_vars

\* the configurations a caller builds single elements from: a length
\* (absent, 0, 1 or NaN metres), a strength (absent, zero, focusing or
\* defocusing), a transfer list (absent, a string, or 8, 49 or 50 doubles),
\* and the frequency present or not
BuildConfs ==
    {[EmptyConfig EXCEPT !["L"] = L, !["K"] = K, !["transfer"] = T, !["Frf"] = F,
                         !["IonEs"] = AnyDouble(1)] :
        L \in {NoAny, AnyDouble(0), AnyDouble(1), AnyDouble(NaN)},
        K \in {NoAny, AnyDouble(0), AnyDouble(1000000), AnyDouble(-1000000)},
        T \in {NoAny, AnyString(1), AnyVector(VectorOf(maxsize + 1)),
               AnyVector(VectorOf(maxsize * maxsize)),
               AnyVector(VectorOf(maxsize * maxsize + 1))},
        F \in {NoAny, AnyDouble(1)}}

\* the element types built alone
BuildKinds == {"drift", "quadrupole", "solenoid", "generic"}

\* the builder of an element type is called with conf by a caller that
\* holds no element: the element, if one comes to be, is the only one held
NewElement(kind, conf, garbage) ==
    /\ call.op = "none"
    /\ LET r == BuildElement(kind, 0, conf, garbage)
       IN /\ elem' = IF r.err = "none" THEN [i \in {0} |-> r.elem] ELSE << >>
          /\ call' = [NoCall EXCEPT !.op = kind, !.err = r.err]
    /\ c' = conf
    /\ UNCHANGED <<ret, st>>

\* the caller deletes the element it built, and the configuration
deleteElement ==
    /\ call.op \in BuildKinds
    /\ elem' = << >>
    /\ c' = EmptyConfig
    /\ call' = NoCall
    /\ UNCHANGED <<ret, st>>

\* elements built one at a time from configurations
NextBuild ==
    \/ \E kind \in BuildKinds, conf \in BuildConfs, g \in Garbage : NewElement(kind, conf, g)
    \/ deleteElement

SpecBuild == InitCaller /\ [][NextBuild]_vars

(***************************************************************************)
(* The cache of energy-dependent terms                                     *)
(***************************************************************************)
\* C1, as the specification states it: when an element with the default
\* advance is advanced twice in a row from states of identical kinetic
\* energy, the second advance takes the cache-hit path and leaves transfer,
\* transfer_raw, last_Kenergy_in and last_Kenergy_out as they were.
C1_AnyEnergy ==
    (call.op = "propogate" /\ call.n > 0 /\ elem[call.e].kind \in DefaultKinds /\ call.same)
        => (call.hit /\ call.kept)

\* C1, amended: the same, for a kinetic energy that is a number.  A NaN
\* kinetic energy compares unequal to the stored key, itself NaN, and every
\* advance recomputes.
C1_NumberEnergy ==
    (/\ call.op = "propogate" /\ call.n > 0
     /\ elem[call.e].kind \in DefaultKinds
     /\ call.same /\ ~IsNaN(call.Ein))
        => (call.hit /\ call.kept)

\* a drift advanced a second time from the same numeric energy
C1_Witness ==
    /\ call.op = "propogate" /\ call.n > 0
    /\ elem[call.e].kind = "drift"
    /\ call.same /\ ~IsNaN(call.Ein)
    /\ call.hit /\ call.kept

\* C2, as the specification states it: whenever an advance has changed the
\* kinetic energy of the state, the state's gamma and beta are the values
\* derived from the new kinetic energy.
C2_BetaGammaFollowEnergy ==
    (call.op = "propogate" /\ call.n > 0 /\ st[call.s].Ekinetic # call.Ein)
        => /\ st[call.s].gamma = Gamma(st[call.s].Ekinetic, 1)
           /\ st[call.s].beta = Beta(st[call.s].gamma)

\* C3: whenever the default advance returns, the element's transfer is
\* misalign . transfer_raw . inverse(misalign), for the transfer_raw and the
\* misalign the element holds then.
C3_TransferConsistent ==
    (call.op = "propogate" /\ call.n > 0 /\ elem[call.e].kind \in DefaultKinds)
        => LET E == elem[call.e]
               inv == inverse(E.misalign)
           IN /\ inv.err = "none"
              /\ E.transfer = prod(prod(E.misalign, E.transfer_raw), inv.out)

\* the first advance of a drift after Element.assign gave it the fields of
\* another drift
C3_Witness ==
    /\ call.op = "propogate" /\ call.n > 0
    /\ elem[call.e].kind = "drift"
    /\ call.first
    /\ elem[call.e].length # Lattice[call.e + 1].conf["L"].d

(***************************************************************************)
(* Source                                                                  *)
(***************************************************************************)
\* C4: after the source has been advanced on a state, every field of the
\* state equals that of the state built from the source's configuration,
\* whatever the state held and however often the source was advanced.
C4_SourceResets ==
    (call.op = "propogate" /\ call.n > 0 /\ elem[call.e].kind = "source")
        => SameFields(st[call.s], Moment2State(Lattice[call.e + 1].conf).state)

\* the source advanced, not for the first time, on a state of another
\* energy and position than its own
C4_Witness ==
    /\ call.op = "propogate" /\ call.n > 0
    /\ elem[call.e].kind = "source"
    /\ ~call.first
    /\ call.Ein # st[call.s].Ekinetic

(***************************************************************************)
(* Copies of a state                                                       *)
(***************************************************************************)
\* C5, as the specification states it: the clone of a state has every
\* field equal to that of the original.
C5_CloneCopiesAll ==
    (call.op = "clone") => SameFields(st[call.s], st[call.o])

\* C8: State.assign(other) throws invalid_argument for another kind of
\* state and then leaves the target as it was; for the same kind it
\* makes every field of the target equal to that of other.
C8_Assign ==
    (call.op = "assign")
        => IF st[call.o].kind # "Moment2State"
               THEN call.err = "invalid_argument" /\ st[call.s] = call.before
               ELSE call.err = "none" /\ SameFields(st[call.s], st[call.o])

\* an assign that changed the phase, the energy and the moments of its target
C8_Witness ==
    /\ call.op = "assign" /\ call.err = "none"
    /\ call.before.sync_phase # st[call.s].sync_phase
    /\ call.before.Ekinetic # st[call.s].Ekinetic
    /\ call.before.moment0 # st[call.s].moment0

(***************************************************************************)
(* Machine::propogate                                                      *)
(***************************************************************************)
\* C6: no step of propogate(S, start, 0), its entry and its return
\* included, changes a field of the state or calls advance on an element.
C6_MaxZero ==
    [][((call.active /\ call.max = 0) \/ (call'.active /\ call'.max = 0))
            => (st' = st /\ elem' = elem)]_vars

\* propogate(S, start, 0) running on a state that has been advanced before,
\* from an element of the lattice
C6_Witness ==
    /\ call.active /\ call.max = 0
    /\ call.start < Len(Lattice)
    /\ st[call.s].pos > 0

\* C7: each advance propogate makes is within max, on an element of the
\* lattice, which is the one at start for the first and the one at the
\* state's next_elem for the others; the state's next_elem is then the
\* index after it, no element here overwriting it.
C7_Order ==
    [][(call.active /\ call'.active /\ call'.n # call.n)
            => /\ call.n < call.max
               /\ call'.n = call.n + 1
               /\ call'.e < Len(Lattice)
               /\ call'.e = (IF call.n = 0 THEN call.start ELSE st[call.s].next_elem)
               /\ st'[call.s].next_elem = call'.e + 1]_vars

\* propogate stopped by max before the end of the lattice
C7_Witness ==
    /\ call.active /\ call.n = 2 /\ call.max = 2
    /\ call.e = 1
    /\ call.i < Len(Lattice)

(***************************************************************************)
(* Config lookups and the state constructor                                *)
(***************************************************************************)
\* C9: a lookup leaves the store as it is.  get<T>(key, def) never throws:
\* it returns the stored value when the key holds a T and def otherwise.
\* get<T>(key) throws key_error for an absent key and bad_any_cast for a key
\* of another kind, and returns the stored value otherwise.
C9_Get ==
    [][(ret' # ret /\ ret'.key # "")
            => /\ c' = c
               /\ LET a == c[ret'.key]
                  IN IF ret'.hasdef
                         THEN /\ ret'.err = "none"
                              /\ ret'.val = (IF a.kind = ret'.T THEN a ELSE ret'.def)
                         ELSE IF a.kind = "none" THEN ret'.err = "key_error"
                              ELSE IF a.kind # ret'.T THEN ret'.err = "bad_any_cast"
                              ELSE ret'.err = "none" /\ ret'.val = a]_vars

\* get<T>(key, def) of a key held under another kind returned def
C9_Witness ==
    /\ ret.hasdef
    /\ c[ret.key].kind \notin {"none", ret.T}
    /\ ret.err = "none" /\ ret.val = ret.def

\* C10: the constructor throws invalid_argument, and no state comes to be,
\* when moment0 holds more than maxsize entries or initial more than
\* maxsize*maxsize.  Otherwise, each key being absent or a vector, the
\* entries of a vector overwrite as many leading entries of the storage, row
\* by row for the matrix, and the others keep their default, zero for
\* moment0 and the identity for state.
C10_Constructor ==
    (call.op = "Moment2State")
        => LET m0 == c["moment0"]
               ini == c["initial"]
               big == \/ m0.kind = "vector" /\ Len(m0.vec) > maxsize
                      \/ ini.kind = "vector" /\ Len(ini.vec) > maxsize * maxsize
               S == st[call.s]
           IN /\ big => (call.err = "invalid_argument" /\ S.kind = "none")
              /\ (~big /\ m0.kind \in {"none", "vector"} /\ ini.kind \in {"none", "vector"})
                    => /\ call.err = "none"
                       /\ S.kind = "Moment2State"
                       /\ \A i \in Idx :
                            S.moment0[i] = (IF i < Len(m0.vec) THEN m0.vec[i + 1] ELSE 0)
                       /\ \A i \in Idx : \A j \in Idx :
                            S.state[i][j] = (IF i * maxsize + j < Len(ini.vec)
                                                 THEN ini.vec[i * maxsize + j + 1]
                                                 ELSE IF i = j THEN 1 ELSE 0)

\* a state constructed from a moment0 of one entry and an initial that
\* ends in the second row of the matrix
C10_Witness ==
    /\ call.op = "Moment2State" /\ call.err = "none"
    /\ c["moment0"].kind = "vector" /\ Len(c["moment0"].vec) = 1
    /\ c["initial"].kind = "vector" /\ Len(c["initial"].vec) = maxsize + 1

(***************************************************************************)
(* Transfer matrices of the element types                                  *)
(***************************************************************************)
\* C11, as the specification states it: for every length L, a quadrupole
\* built with strength 0 (K absent or 0) has the transfer_raw of the drift
\* built from the same configuration: in both transverse planes 1 on the
\* diagonal, L at position<-angle and 0 at angle<-position.
C11_QuadIsDrift ==
    (/\ call.op = "quadrupole"
     /\ c["Frf"].kind = "double" /\ c["L"].kind = "double"
     /\ c["K"] \in {NoAny, AnyDouble(0)})
        => /\ call.err = "none"
           /\ elem[0].transfer_raw = ElementDrift(0, c, NaN).elem.transfer_raw
           /\ \A ind \in {PS_X, PS_Y} :
                /\ elem[0].transfer_raw[ind][ind] = 1
                /\ elem[0].transfer_raw[ind + 1][ind + 1] = 1
                /\ elem[0].transfer_raw[ind][ind + 1] = Mul(c["L"].d, MtoMM)
                /\ elem[0].transfer_raw[ind + 1][ind] = 0

\* C11, amended: the same, for a length that is a number.  With L NaN the
\* routine computes cosh(0*NaN) for the diagonal, which is NaN, where the
\* drift has 1.
C11_QuadIsDriftNumber ==
    (/\ call.op = "quadrupole"
     /\ c["Frf"].kind = "double" /\ c["L"].kind = "double" /\ ~IsNaN(c["L"].d)
     /\ c["K"] \in {NoAny, AnyDouble(0)})
        => /\ call.err = "none"
           /\ elem[0].transfer_raw = ElementDrift(0, c, NaN).elem.transfer_raw
           /\ \A ind \in {PS_X, PS_Y} :
                /\ elem[0].transfer_raw[ind][ind] = 1
                /\ elem[0].transfer_raw[ind + 1][ind + 1] = 1
                /\ elem[0].transfer_raw[ind][ind + 1] = Mul(c["L"].d, MtoMM)
                /\ elem[0].transfer_raw[ind + 1][ind] = 0

\* a quadrupole of length 1 built with K = 0
C11_Witness ==
    /\ call.op = "quadrupole" /\ call.err = "none"
    /\ c["K"] = AnyDouble(0) /\ c["L"] = AnyDouble(1)
    /\ elem[0].transfer_raw[PS_X][PS_PX] = MtoMM

\* C12, as the specification states it: for every length L, a solenoid
\* built with K = 0 has, in rows and columns x, x', y, y' of transfer_raw,
\* the entries of the drift: 1 on the diagonal, L at (x,x') and (y,y'), 0
\* elsewhere.
C12_SolenoidIsDrift ==
    (/\ call.op = "solenoid"
     /\ c["Frf"].kind = "double" /\ c["L"].kind = "double"
     /\ c["K"] \in {NoAny, AnyDouble(0)})
        => /\ call.err = "none"
           /\ \A i \in PS_X .. PS_PY : \A j \in PS_X .. PS_PY :
                elem[0].transfer_raw[i][j] =
                    (IF i = j THEN 1
                     ELSE IF (i = PS_X /\ j = PS_PX) \/ (i = PS_Y /\ j = PS_PY)
                         THEN Mul(c["L"].d, MtoMM)
                     ELSE 0)

\* C12, amended: the same, for a length that is a number.  With L NaN,
\* cos(0*NaN) and sin(0*NaN) are NaN and so is every entry of the block.
C12_SolenoidIsDriftNumber ==
    (/\ call.op = "solenoid"
     /\ c["Frf"].kind = "double" /\ c["L"].kind = "double" /\ ~IsNaN(c["L"].d)
     /\ c["K"] \in {NoAny, AnyDouble(0)})
        => /\ call.err = "none"
           /\ \A i \in PS_X .. PS_PY : \A j \in PS_X .. PS_PY :
                elem[0].transfer_raw[i][j] =
                    (IF i = j THEN 1
                     ELSE IF (i = PS_X /\ j = PS_PX) \/ (i = PS_Y /\ j = PS_PY)
                         THEN Mul(c["L"].d, MtoMM)
                     ELSE 0)
           /\ \A i \in PS_X .. PS_PY : \A j \in PS_X .. PS_PY :
                elem[0].transfer_raw[i][j] = ElementDrift(0, c, NaN).elem.transfer_raw[i][j]

\* a solenoid of length 1 built with K = 0
C12_Witness ==
    /\ call.op = "solenoid" /\ call.err = "none"
    /\ c["K"] = AnyDouble(0) /\ c["L"] = AnyDouble(1)
    /\ elem[0].transfer_raw[PS_Y][PS_PY] = MtoMM

\* C13: a generic element built with a transfer list longer than
\* maxsize*maxsize throws invalid_argument and no element comes to be;
\* otherwise the k entries of the list are the first k entries of
\* transfer_raw, row by row, and the others are those of the identity; a
\* list of maxsize*maxsize entries is the whole of transfer_raw.
C13_Generic ==
    (call.op = "generic" /\ c["Frf"].kind = "double" /\ c["transfer"].kind = "vector")
        => LET I == c["transfer"].vec
           IN IF Len(I) > maxsize * maxsize
                  THEN call.err = "invalid_argument" /\ elem = << >>
                  ELSE /\ call.err = "none"
                       /\ \A i \in Idx : \A j \in Idx :
                            elem[0].transfer_raw[i][j] =
                                (IF i * maxsize + j < Len(I) THEN I[i * maxsize + j + 1]
                                 ELSE IF i = j THEN 1 ELSE 0)

\* a generic element built from a list of maxsize*maxsize doubles
C13_Witness ==
    /\ call.op = "generic" /\ call.err = "none"
    /\ Len(c["transfer"].vec) = maxsize * maxsize
    /\ elem[0].transfer_raw[maxsize - 1][maxsize - 1] = c["transfer"].vec[maxsize * maxsize]

C15_Cavity ==
    (call.op = "propogate" /\ call.n > 0 /\ elem[call.e].kind = "rfcavity")
        => /\ st[call.s].Ekinetic = Add(call.Ein, 1)
           /\ elem[call.e].last_Kenergy_out = Add(elem[call.e].last_Kenergy_in, 1)
           /\ elem[call.e].transfer = elem[call.e].transfer_raw

\* the cavity advanced on the cache-hit path
C15_Witness ==
    /\ call.op = "propogate" /\ call.n > 0
    /\ elem[call.e].kind = "rfcavity"
    /\ call.hit
    /\ st[call.s].Ekinetic = call.Ein + 1

\* C16: a default advance, on a miss and on a hit, adds the element's
\* length to pos and phase_factor/beta to sync_phase, and leaves Ekinetic,
\* beta and gamma of the state as they were.
C16_DefaultFrame ==
    [][(/\ call'.active /\ call'.n = call.n + 1
        /\ elem[call'.e].kind \in DefaultKinds)
            => LET E == elem[call'.e]
                   ST == st[call'.s]
                   ST1 == st'[call'.s]
               IN /\ ST1.pos = Add(ST.pos, E.length)
                  /\ ST1.sync_phase = Add(ST.sync_phase, Div(E.phase_factor, ST.beta))
                  /\ ST1.Ekinetic = ST.Ekinetic
                  /\ ST1.beta = ST.beta
                  /\ ST1.gamma = ST.gamma]_vars

\* the drift advanced on the cache-hit path, the phase of the state moved
C16_Witness ==
    /\ call.op = "propogate" /\ call.n > 0
    /\ elem[call.e].kind = "drift"
    /\ call.hit
    /\ st[call.s].sync_phase > 0
    /\ st[call.s].pos > 0

\* C17: the first advance of an element that keeps the cache, after its
\* constructor and after Element.assign, recomputes, whatever the kinetic
\* energy of the state, and stores that energy as the key.
C17_FirstRecomputes ==
    (/\ call.op = "propogate" /\ call.n > 0
     /\ elem[call.e].kind # "source"
     /\ call.first)
        => /\ ~call.hit
           /\ elem[call.e].last_Kenergy_in = call.Ein

\* the first advance of a drift after Element.assign, on a state of
\* kinetic energy 1, which is the key afterwards
C17_Witness ==
    /\ call.op = "propogate" /\ call.n > 0
    /\ elem[call.e].kind = "drift"
    /\ call.first /\ ~call.hit
    /\ elem[call.e].length # Lattice[call.e + 1].conf["L"].d
    /\ call.Ein = 1 /\ elem[call.e].last_Kenergy_in = 1

\* C18, as the claim states it: after a default advance, the
\* energy-dependent entry of the transfer applied is the one computed from
\* beta and gamma of the state advanced.
C18_TermOfThisState ==
    (call.op = "propogate" /\ call.n > 0 /\ elem[call.e].kind \in DefaultKinds)
        => elem[call.e].transfer_raw[PS_S][PS_PS] = EnergyTerm(elem[call.e], st[call.s])

=============================================================================
